---- MODULE Spec2Model ----
(***************************************************************************)
(* Model of the anti-pilferage intelligence engine:                        *)
(*   app/core/engine.py            IntelligenceEngine (coordinator)        *)
(*   app/agents/anomaly_detector.py AnomalyDetectionAgent                  *)
(*   app/agents/sop_engine.py      SOPEngineAgent                          *)
(*   app/models.py, app/db_models.py  records and tables                   *)
(*                                                                         *)
(* Timestamps are minutes, locations are metres along one line (the        *)
(* geodesic distance of two points of a line is the absolute difference).  *)
(* Weights are kilograms.  A missing dict key is modelled by the default   *)
(* the code reads it with (state.get(key, default)).                       *)
(***************************************************************************)
EXTENDS Integers, Sequences, FiniteSets, TLC

VARIABLES
    active_trips,   \* engine.active_trips : truck_id -> TripConfig
    truck_states,   \* engine.truck_states : truck_id -> state dict
    trip_db,        \* table TripConfigDB (rows in insertion order)
    alert_db,       \* table AlertDB (rows in insertion order): the alert log
    telemetry_db,   \* table TelemetryDB: number of rows per truck_id
    telemetry_rows, \* table TelemetryDB: the rows of each truck_id in the
                    \* order of their ids, or NotKept
    sync,           \* the running sync_edge_buffer call, or NoSync
    last,           \* the call of the last step: operation, input, outcome
    episode,        \* per truck, the stop episode of the samples analysed
    custody_log,    \* engine.custody_log : the custody events, in order
    pending         \* a process_telemetry call another thread has begun

vars == <<active_trips, truck_states, trip_db, alert_db, telemetry_db,
          telemetry_rows, sync, last, episode, custody_log, pending>>

----------------------------------------------------------------------------
(* Bounds of the model *)

MaxTel == 4        \* rows of TelemetryDB, all operations
MaxStopTel == 6    \* rows of TelemetryDB, stop tracking
MaxBuf == 2        \* samples a live call may put into one edge_buffer
MaxAlerts == 3     \* rows of AlertDB
MaxCustody == 1    \* events of custody_log
MaxLogTel == 3     \* rows of TelemetryDB live calls may reach, alert log
MaxRiskTel == 2    \* rows of TelemetryDB, risk heuristic
MaxRestartTel == 3 \* rows of TelemetryDB, restarts

(* Input domains *)

Trucks == {"A", "B"}
TripIds == {"T0", "T1"}
Times == {0, 5, 6}
Locations == {500, 501, 1000}
Weights == {89, 90}
Speeds == {4, 5}

----------------------------------------------------------------------------
(* Program constants *)

StopSpeedKmh == 5            \* anomaly_detector.py:57  speed_kmh < 5.0
SafeZoneMeters == 500        \* anomaly_detector.py:36  dist_to_dest > 500
UnauthorizedGraceMinutes == 5 \* anomaly_detector.py:93 stop_duration > 5.0
DefaultToleranceKg == 10     \* models.py:39 weight_tolerance_kg = 10.0

NoTime == -1                          \* stop_start_time = None
NoTelemetry == [none |-> TRUE]        \* last_telemetry = None
NoTrip == [none |-> TRUE]             \* truck_id not in active_trips
NoSync == [none |-> TRUE]             \* no sync_edge_buffer call running
NoStop == [none |-> TRUE]             \* _find_authorized_stop returned None

----------------------------------------------------------------------------
(* Records: models.py *)

(* location is the sample's GeoPoint as the detector reads it, through its  *)
(* distances; latitude and longitude are the degrees of the same GeoPoint, *)
(* in 1/10000 degree, as predict_risk reads them.  The line of the model   *)
(* runs west from the destination (22.5726, 88.3639) along its parallel,   *)
(* about 10 m to 1/10000 degree.                                           *)
DestinationLatitude == 225726
DestinationLongitude == 883639

Telemetry(truck, ts, loc, w, v) ==
    [truck_id |-> truck, timestamp |-> ts, location |-> loc,
     weight_kg |-> w, speed_kmh |-> v,
     latitude |-> DestinationLatitude,
     longitude |-> DestinationLongitude - (loc \div 10)]

(* A sample away from the line, in the corridor the hotspots lie in: it is *)
(* more than 30 km from the destination, moving, with the full load.       *)
GeoTelemetry(truck, ts, lat, lng) ==
    [truck_id |-> truck, timestamp |-> ts, location |-> 30000,
     weight_kg |-> 90, speed_kmh |-> 5,
     latitude |-> lat, longitude |-> lng]

RiskTimes == {119, 120, 299, 300}
RiskLatitudes == {222800, 224959, 225000}
RiskLongitudes == {873819, 873821, 878672}

RiskSamples == { GeoTelemetry("A", ts, lat, lng) :
                   ts \in RiskTimes, lat \in RiskLatitudes,
                   lng \in RiskLongitudes }

Samples == { Telemetry(t, ts, 1000, w, 4) :
               t \in Trucks, ts \in {0, 6}, w \in {90} }
           \cup { Telemetry(t, 6, 1000, 89, 5) : t \in Trucks }

EdgeSamples == { Telemetry("A", 0, 1000, 90, 4), Telemetry("A", 6, 1000, 90, 4),
                 Telemetry("A", 6, 1000, 89, 5) }

StopSamples == { Telemetry("A", ts, loc, w, v) :
                   ts \in Times, loc \in Locations,
                   w \in Weights, v \in Speeds }

AuthorizedStop(loc, radius, maxdur, nm) ==
    [location |-> loc, radius_meters |-> radius,
     max_duration_minutes |-> maxdur, name |-> nm]

RestPoint == AuthorizedStop(1000, 400, 5, "rest")
Depot == AuthorizedStop(1400, 400, 10, "depot")

StopLists == { <<>>, <<RestPoint, Depot>>, <<Depot, RestPoint>> }

TripConfig(id, truck, stops) ==
    [trip_id |-> id, truck_id |-> truck, destination_location |-> 0,
     authorized_stops |-> stops, total_expected_weight_kg |-> 100,
     weight_tolerance_kg |-> DefaultToleranceKg]

Trips == { TripConfig(id, t, <<RestPoint, Depot>>) :
             id \in TripIds, t \in Trucks }

EdgeTrips == { TripConfig("T1", "A", <<RestPoint, Depot>>) }

StopTrips == { TripConfig("T1", "A", stops) : stops \in StopLists \ {<<>>} }

(* The fields of Alert that have no default: Alert(...) without one of     *)
(* them raises a ValidationError.                                          *)
RequiredAlertFields ==
    {"alert_id", "trip_id", "truck_id", "timestamp", "type", "severity",
     "location", "agent_name", "why_flagged"}

ValidationError == [error |-> "ValidationError"]

(* Alert constructor: the keyword arguments become the record, status     *)
(* defaults to OPEN; a missing required field raises.                      *)
Alert(kwargs) ==
    IF RequiredAlertFields \subseteq DOMAIN kwargs
    THEN [alert_id |-> kwargs.alert_id, trip_id |-> kwargs.trip_id,
          truck_id |-> kwargs.truck_id, timestamp |-> kwargs.timestamp,
          type |-> kwargs.type, severity |-> kwargs.severity,
          location |-> kwargs.location, agent_name |-> kwargs.agent_name,
          status |-> IF "status" \in DOMAIN kwargs THEN kwargs.status ELSE "OPEN"]
    ELSE ValidationError

----------------------------------------------------------------------------
(* AnomalyDetectionAgent: anomaly_detector.py *)

Abs(x) == IF x < 0 THEN -x ELSE x

(* _calculate_distance: geodesic(p1, p2).meters *)
CalculateDistance(p1, p2) == Abs(p1 - p2)

FindAuthorizedStop_LastMatch(location, auth_stops) ==
    LET inside == { i \in 1..Len(auth_stops) :
                      CalculateDistance(location, auth_stops[i].location)
                        <= auth_stops[i].radius_meters }
    IN  IF inside = {} THEN NoStop
        ELSE auth_stops[CHOOSE i \in inside : \A j \in inside : j <= i]

(* _find_authorized_stop: the first stop of the list whose geofence        *)
(* contains the location, or None.                                         *)
RECURSIVE FindAuthorizedStop(_, _)
FindAuthorizedStop(location, auth_stops) ==
    IF auth_stops = <<>> THEN NoStop
    ELSE IF CalculateDistance(location, Head(auth_stops).location)
              <= Head(auth_stops).radius_meters
         THEN Head(auth_stops)
         ELSE FindAuthorizedStop(location, Tail(auth_stops))

AnalyzeWeight_AtThreshold(trip, data, id) ==
    LET min_allowed_weight ==
            trip.total_expected_weight_kg - trip.weight_tolerance_kg
    IN  IF /\ data.weight_kg <= min_allowed_weight
           /\ CalculateDistance(data.location, trip.destination_location)
                > SafeZoneMeters
        THEN << Alert([alert_id |-> id, trip_id |-> trip.trip_id,
                       truck_id |-> data.truck_id,
                       timestamp |-> data.timestamp,
                       type |-> "WEIGHT_MISMATCH", severity |-> "CRITICAL",
                       location |-> data.location,
                       agent_name |-> "Weight Guard",
                       why_flagged |-> "weight drop"]) >>
        ELSE <<>>

(* _analyze_weight: the alerts it returns; id is the uuid of a new alert.  *)
AnalyzeWeight(trip, data, id) ==
    LET min_allowed_weight ==
            trip.total_expected_weight_kg - trip.weight_tolerance_kg
    IN  IF /\ data.weight_kg < min_allowed_weight
           /\ CalculateDistance(data.location, trip.destination_location)
                > SafeZoneMeters
        THEN << Alert([alert_id |-> id, trip_id |-> trip.trip_id,
                       truck_id |-> data.truck_id,
                       timestamp |-> data.timestamp,
                       type |-> "WEIGHT_MISMATCH", severity |-> "CRITICAL",
                       location |-> data.location,
                       agent_name |-> "Weight Guard",
                       why_flagged |-> "weight drop"]) >>
        ELSE <<>>

(* The Alert _analyze_stops builds (lines 75-88 and 95-108). *)
StopAlert(trip, data, sev, id) ==
    Alert([alert_id |-> id, trip_id |-> trip.trip_id,
           truck_id |-> data.truck_id, timestamp |-> data.timestamp,
           type |-> "SUSPICIOUS_STOP", severity |-> sev,
           location |-> data.location, agent_name |-> "Stop Analyzer",
           why_flagged |-> "stop duration"])

TransitionToStopped_NoStartTime(state, data) ==
    [alerts |-> <<>>, state |-> [state EXCEPT !.is_stopped = TRUE]]

(* _analyze_stops, lines 60-63: Transition to Stopped *)
TransitionToStopped(state, data) ==
    [alerts |-> <<>>,
     state |-> [state EXCEPT !.is_stopped = TRUE,
                             !.stop_start_time = data.timestamp]]

(* _analyze_stops, lines 71-89: Continuing Stop inside the geofence        *)
(* auth_stop; alert is the Alert to append.                                *)
Overstay_NoSuppression(state, stop_duration, auth_stop, alert) ==
    IF stop_duration > auth_stop.max_duration_minutes
    THEN [alerts |-> << alert >>,
          state |-> [state EXCEPT !.alerted_overstay = TRUE]]
    ELSE [alerts |-> <<>>, state |-> state]

Overstay(state, stop_duration, auth_stop, alert) ==
    IF stop_duration > auth_stop.max_duration_minutes
    THEN IF ~state.alerted_overstay
         THEN [alerts |-> << alert >>,
               state |-> [state EXCEPT !.alerted_overstay = TRUE]]
         ELSE [alerts |-> <<>>, state |-> state]
    ELSE [alerts |-> <<>>, state |-> state]

(* _analyze_stops, lines 90-108: Continuing Stop outside every geofence *)
UnauthorizedStop_AtLeast(state, stop_duration, alert) ==
    IF stop_duration >= UnauthorizedGraceMinutes
    THEN [alerts |-> << alert >>, state |-> state]
    ELSE [alerts |-> <<>>, state |-> state]

UnauthorizedStop(state, stop_duration, alert) ==
    IF stop_duration > UnauthorizedGraceMinutes
    THEN [alerts |-> << alert >>, state |-> state]
    ELSE [alerts |-> <<>>, state |-> state]

(* _analyze_stops, lines 109-113: Moving *)
Moving_KeepsOverstayFlag(state) ==
    [alerts |-> <<>>,
     state |-> [state EXCEPT !.is_stopped = FALSE,
                             !.stop_start_time = NoTime]]

(* _analyze_stops, lines 109-113 with line 112 left out: the start time of *)
(* the ended stop is kept.                                                 *)
Moving_KeepsStartTime(state) ==
    [alerts |-> <<>>,
     state |-> [state EXCEPT !.is_stopped = FALSE,
                             !.alerted_overstay = FALSE]]

Moving(state) ==
    [alerts |-> <<>>,
     state |-> [state EXCEPT !.is_stopped = FALSE,
                             !.stop_start_time = NoTime,
                             !.alerted_overstay = FALSE]]

(* _analyze_stops: the alerts it returns and the state dict it leaves.     *)
AnalyzeStops(trip, data, state, id) ==
    LET is_stopped == data.speed_kmh < StopSpeedKmh
        stop_duration == data.timestamp - state.stop_start_time
        auth_stop == FindAuthorizedStop(data.location, trip.authorized_stops)
    IN  IF is_stopped
        THEN IF ~state.is_stopped
             THEN TransitionToStopped(state, data)
             ELSE IF auth_stop # NoStop
                  THEN Overstay(state, stop_duration, auth_stop,
                                StopAlert(trip, data, "MEDIUM", id))
                  ELSE UnauthorizedStop(state, stop_duration,
                                        StopAlert(trip, data, "HIGH", id))
        ELSE Moving(state)

(* analyze: weight alerts, then stop alerts.  id is the last uuid used:    *)
(* every new alert takes the next one.                                     *)
Analyze(trip, telemetry, truck_state, id) ==
    LET weight_alerts == AnalyzeWeight(trip, telemetry, id + 1)
        stops == AnalyzeStops(trip, telemetry, truck_state,
                              id + 1 + Len(weight_alerts))
    IN  [alerts |-> weight_alerts \o stops.alerts, state |-> stops.state]

----------------------------------------------------------------------------
(* SOPEngineAgent: sop_engine.py *)

(* _trigger_security_protocol: builds the Alert without agent_name and     *)
(* why_flagged.                                                            *)
TriggerSecurityProtocol(trigger_alert, id) ==
    Alert([alert_id |-> id, trip_id |-> trigger_alert.trip_id,
           truck_id |-> trigger_alert.truck_id,
           timestamp |-> trigger_alert.timestamp,
           type |-> "ROUTE_DEVIATION", severity |-> "CRITICAL",
           description |-> "SOP ENFORCEMENT: Security Team Notified",
           location |-> trigger_alert.location])

(* _trigger_driver_contact: builds the Alert without agent_name and        *)
(* why_flagged.                                                            *)
TriggerDriverContact(trigger_alert, id) ==
    Alert([alert_id |-> id, trip_id |-> trigger_alert.trip_id,
           truck_id |-> trigger_alert.truck_id,
           timestamp |-> trigger_alert.timestamp,
           type |-> "SUSPICIOUS_STOP", severity |-> "MEDIUM",
           description |-> "SOP ENFORCEMENT: Automated Driver Call Initiated",
           location |-> trigger_alert.location])

(* evaluate: the list sop_actions; an element that is ValidationError      *)
(* stands for the exception raised while that element was being built.     *)
RECURSIVE Evaluate(_, _)
Evaluate(incoming_alerts, id) ==
    IF incoming_alerts = <<>> THEN <<>>
    ELSE LET alert == Head(incoming_alerts)
             security == IF alert.type = "WEIGHT_MISMATCH"
                         THEN << TriggerSecurityProtocol(alert, id + 1) >>
                         ELSE <<>>
             contact == IF alert.type = "SUSPICIOUS_STOP" /\ alert.severity = "HIGH"
                        THEN << TriggerDriverContact(alert, id + 1) >>
                        ELSE <<>>
         IN  security \o contact
               \o Evaluate(Tail(incoming_alerts), id + Len(security \o contact))

Raises(results) == \E i \in 1..Len(results) : results[i] = ValidationError

----------------------------------------------------------------------------
(* IntelligenceEngine: engine.py *)

(* The state dict register_trip and _load_state_from_db install.  It has   *)
(* no edge_offline and no edge_buffer key: they read as False and [].      *)
RestState ==
    [present |-> TRUE, last_telemetry |-> NoTelemetry,
     stop_start_time |-> NoTime, is_stopped |-> FALSE,
     alerted_overstay |-> FALSE, edge_offline |-> FALSE,
     edge_buffer |-> <<>>]

(* truck_id not in truck_states *)
AbsentState == [RestState EXCEPT !.present = FALSE]

RECURSIVE SumRows(_, _)
SumRows(db, S) ==
    IF S = {} THEN 0
    ELSE LET t == CHOOSE x \in S : TRUE IN db[t] + SumRows(db, S \ {t})

TelemetryRows(db) == SumRows(db, Trucks)

(* uuid4: the model numbers the alerts; LastUuid is the last number used.  *)
LastUuid(alerts) == Len(alerts)

(* The data an operation works on. *)
World(trips, states, alerts, tel, rows) ==
    [active_trips |-> trips, truck_states |-> states,
     alert_db |-> alerts, telemetry_db |-> tel, telemetry_rows |-> rows]

(* The rows of TelemetryDB are read by _load_state_from_db alone.  The     *)
(* specifications that never start the engine again keep the number of    *)
(* rows and not the rows: they start with telemetry_rows = NotKept.        *)
NotKept == [kept |-> FALSE]

(* _telemetry_to_db, lines 95-105: the columns of the row; the GeoPoint of  *)
(* the sample goes to the columns latitude and longitude (with its place   *)
(* on the line, which the model keeps beside them).                        *)
TelemetryToDb(t) ==
    [truck_id |-> t.truck_id, timestamp |-> t.timestamp,
     latitude |-> t.latitude, longitude |-> t.longitude, metres |-> t.location,
     weight_kg |-> t.weight_kg, speed_kmh |-> t.speed_kmh]

(* _db_to_telemetry, lines 107-116 *)
DbToTelemetry(t) ==
    [truck_id |-> t.truck_id, timestamp |-> t.timestamp, location |-> t.metres,
     weight_kg |-> t.weight_kg, speed_kmh |-> t.speed_kmh,
     latitude |-> t.latitude, longitude |-> t.longitude]

(* session.add(self._telemetry_to_db(data)); session.commit() *)
AddTelemetryRow(rows, data) ==
    IF rows = NotKept THEN NotKept
    ELSE [rows EXCEPT ![data.truck_id] = Append(@, TelemetryToDb(data))]

(* process_telemetry returns: the world it leaves, the list it returns     *)
(* (ret), the exception it raises (exc), the detector's alerts (raw) and   *)
(* whether the detector ran (analysed).                                    *)

(* lines 311-312: no registered trip *)
ReturnUnregistered_Persists(W, data) ==
    [world |-> [W EXCEPT !.telemetry_db[data.truck_id] = @ + 1,
                         !.telemetry_rows = AddTelemetryRow(@, data)],
     ret |-> <<>>, exc |-> "none", raw |-> <<>>, analysed |-> FALSE]

ReturnUnregistered(W, data) ==
    [world |-> W, ret |-> <<>>, exc |-> "none", raw |-> <<>>,
     analysed |-> FALSE]

(* lines 317-320: Persist Telemetry *)
PersistTelemetry(W, data) ==
    [W EXCEPT !.telemetry_db[data.truck_id] = @ + 1,
              !.telemetry_rows = AddTelemetryRow(@, data)]

(* lines 322-326: Edge Offline, buffer telemetry and skip processing *)
BufferOffline(W, data) ==
    [world |-> [W EXCEPT
                  !.truck_states[data.truck_id].edge_buffer = Append(@, data)],
     ret |-> <<>>, exc |-> "none", raw |-> <<>>, analysed |-> FALSE]

(* lines 328-345: the two agents, Persist Alerts, last_telemetry.  An      *)
(* exception of evaluate leaves the changes analyze made to the dict.      *)
AnalyseOnline(W, data) ==
    LET truck == data.truck_id
        det == Analyze(W.active_trips[truck], data, W.truck_states[truck],
                       LastUuid(W.alert_db))
        raw_alerts == det.alerts
        sop_actions == Evaluate(raw_alerts, LastUuid(W.alert_db) + Len(raw_alerts))
        all_alerts == raw_alerts \o sop_actions
    IN  IF Raises(sop_actions)
        THEN [world |-> [W EXCEPT !.truck_states[truck] = det.state],
              ret |-> <<>>, exc |-> "ValidationError",
              raw |-> raw_alerts, analysed |-> TRUE]
        ELSE [world |-> [W EXCEPT
                           !.truck_states[truck] =
                               [det.state EXCEPT !.last_telemetry = data],
                           !.alert_db = @ \o all_alerts],
              ret |-> all_alerts, exc |-> "none",
              raw |-> raw_alerts, analysed |-> TRUE]

ProcessTelemetryCall(W, data) ==
    IF W.active_trips[data.truck_id] = NoTrip
    THEN ReturnUnregistered(W, data)
    ELSE IF W.truck_states[data.truck_id].edge_offline
         THEN BufferOffline(PersistTelemetry(W, data), data)
         ELSE AnalyseOnline(PersistTelemetry(W, data), data)

(* A repository write that fails: session.commit() raises (the database is *)
(* locked or cannot be written) and no statement of the engine catches it. *)

(* lines 317-320 raise: the row is not stored and the call ends there.     *)
PersistTelemetryFails(W, data) ==
    [world |-> W, ret |-> <<>>, exc |-> "OperationalError", raw |-> <<>>,
     analysed |-> FALSE]

(* lines 338-342 raise: the detector has changed the dict, no alert is     *)
(* stored and line 344 is not reached.                                     *)
PersistAlertsFails(W, data) ==
    LET truck == data.truck_id
        det == Analyze(W.active_trips[truck], data, W.truck_states[truck],
                       LastUuid(W.alert_db))
    IN  [world |-> [W EXCEPT !.truck_states[truck] = det.state],
         ret |-> <<>>, exc |-> "OperationalError",
         raw |-> det.alerts, analysed |-> TRUE]

(* process_telemetry on a second thread.  The endpoint receive_telemetry   *)
(* is a plain def, which the server runs on a pool of worker threads, and  *)
(* the engine takes no lock, so a call can be between two of its           *)
(* statements while another call runs.  The model suspends a call at one   *)
(* point: after _analyze_stops has read alerted_overstay as false (line    *)
(* 74) and before it appends the alert and sets the flag (lines 75-89).    *)

(* _analyze_stops, lines 57-74: the call reaches the Overstay branch with  *)
(* the flag not set.                                                       *)
ReachesOverstayAlert(trip, data, state) ==
    LET auth_stop == FindAuthorizedStop(data.location, trip.authorized_stops)
    IN  /\ data.speed_kmh < StopSpeedKmh
        /\ state.is_stopped
        /\ auth_stop # NoStop
        /\ data.timestamp - state.stop_start_time
             > auth_stop.max_duration_minutes
        /\ ~state.alerted_overstay

(* lines 75-89 of _analyze_stops, then lines 331-345 of process_telemetry, *)
(* on the state the dict has when the call goes on.  p is the suspended    *)
(* call: the trip it read at line 314 and its sample.                      *)
ResumeOverstayCall(W, p) ==
    LET truck == p.data.truck_id
        weight_alerts == AnalyzeWeight(p.trip, p.data, LastUuid(W.alert_db) + 1)
        raw_alerts ==
            weight_alerts
              \o << StopAlert(p.trip, p.data, "MEDIUM",
                              LastUuid(W.alert_db) + 1 + Len(weight_alerts)) >>
        state == [W.truck_states[truck] EXCEPT !.alerted_overstay = TRUE]
        sop_actions == Evaluate(raw_alerts, LastUuid(W.alert_db) + Len(raw_alerts))
        all_alerts == raw_alerts \o sop_actions
    IN  IF Raises(sop_actions)
        THEN [world |-> [W EXCEPT !.truck_states[truck] = state],
              ret |-> <<>>, exc |-> "ValidationError",
              raw |-> raw_alerts, analysed |-> TRUE]
        ELSE [world |-> [W EXCEPT
                           !.truck_states[truck] =
                               [state EXCEPT !.last_telemetry = p.data],
                           !.alert_db = @ \o all_alerts],
              ret |-> all_alerts, exc |-> "none",
              raw |-> raw_alerts, analysed |-> TRUE]

(* register_trip: session.add + commit of a TripConfigDB row whose primary *)
(* key trip_id is already stored raises IntegrityError before the memory   *)
(* is updated.                                                             *)
TripStored(db, id) == \E i \in 1..Len(db) : db[i].trip_id = id

RegisterTripCall_DropsAlerts(W, db, trip) ==
    IF TripStored(db, trip.trip_id)
    THEN [world |-> W, trip_db |-> db, exc |-> "IntegrityError"]
    ELSE [world |-> [W EXCEPT !.active_trips[trip.truck_id] = trip,
                              !.truck_states[trip.truck_id] = RestState,
                              !.alert_db = <<>>],
          trip_db |-> Append(db, trip), exc |-> "none"]

RegisterTripCall(W, db, trip) ==
    IF TripStored(db, trip.trip_id)
    THEN [world |-> W, trip_db |-> db, exc |-> "IntegrityError"]
    ELSE [world |-> [W EXCEPT !.active_trips[trip.truck_id] = trip,
                              !.truck_states[trip.truck_id] = RestState],
          trip_db |-> Append(db, trip), exc |-> "none"]

(* predict_risk.  Scores are in hundredths, degrees in 1/10000 degree.     *)
(* The differences lat - p_lat and lng - p_lng of two doubles are exact    *)
(* and none of them equals the double 0.15, so the input domains take      *)
(* points on either side of the threshold and none on it.                  *)
NoTelemetryScore == 10        \* engine.py:394  "risk_score": 0.1
BaseScore == 20               \* engine.py:400  score = 0.2
TimeWindowBoost == 40         \* engine.py:403  score += 0.4
HotspotBoost == 30            \* engine.py:409  score += 0.3
MaxScore == 95                \* engine.py:411  min(score, 0.95)
NearThreshold == 1500         \* engine.py:406  th=0.15
Kharagpur == [latitude |-> 223460, longitude |-> 872320]
Kolaghat == [latitude |-> 224327, longitude |-> 878672]

(* tel.timestamp.hour of a timestamp in minutes *)
Hour(ts) == (ts \div 60) % 24

Min(a, b) == IF a < b THEN a ELSE b

(* near(p_lat, p_lng): lines 406-407 *)
Near(lat, lng, p) ==
    Abs(lat - p.latitude) < NearThreshold
        /\ Abs(lng - p.longitude) < NearThreshold

InHotspot_MixedAxes(lat, lng) ==
    /\ \/ Abs(lat - Kharagpur.latitude) < NearThreshold
       \/ Abs(lat - Kolaghat.latitude) < NearThreshold
    /\ \/ Abs(lng - Kharagpur.longitude) < NearThreshold
       \/ Abs(lng - Kolaghat.longitude) < NearThreshold

(* line 408 *)
InHotspot(lat, lng) == Near(lat, lng, Kharagpur) \/ Near(lat, lng, Kolaghat)

PredictRiskCall(W, truck_id) ==
    LET state == W.truck_states[truck_id]
        tel == state.last_telemetry
        window == 2 <= Hour(tel.timestamp) /\ Hour(tel.timestamp) <= 4
        hotspot == InHotspot(tel.latitude, tel.longitude)
        score == BaseScore + (IF window THEN TimeWindowBoost ELSE 0)
                           + (IF hotspot THEN HotspotBoost ELSE 0)
    IN  IF ~state.present \/ tel = NoTelemetry
        THEN [risk_score |-> NoTelemetryScore, factors |-> <<>>]
        ELSE [risk_score |-> Min(score, MaxScore),
              factors |-> (IF window THEN << "Time window 2-4 AM" >> ELSE <<>>)
                            \o (IF hotspot THEN << "Eastern Corridor hotspot" >>
                                ELSE <<>>)]

(* set_edge_mode: setdefault(truck_id, {}) creates the dict of an unknown  *)
(* truck; an empty edge_buffer reads the same as a missing one.            *)
SetEdgeModeCall_ClearsBuffer(W, truck_id, offline) ==
    [W EXCEPT !.truck_states[truck_id].present = TRUE,
              !.truck_states[truck_id].edge_offline = offline,
              !.truck_states[truck_id].edge_buffer = <<>>]

SetEdgeModeCall(W, truck_id, offline) ==
    [W EXCEPT !.truck_states[truck_id].present = TRUE,
              !.truck_states[truck_id].edge_offline = offline]

(* add_custody_event: the event appended to custody_log and, when the      *)
(* truck has a last_telemetry, the CCTV Guard alert stored in AlertDB.     *)
(* photo_base64, signature and notes are copied into the event unread.     *)
CustodyEvent(truck_id, stop_name, now) ==
    [truck_id |-> truck_id, stop_name |-> stop_name, timestamp |-> now]

AddCustodyEventCall_NoAlert(W, log, truck_id, stop_name, now) ==
    [world |-> W,
     custody_log |-> Append(log, CustodyEvent(truck_id, stop_name, now)),
     ret |-> CustodyEvent(truck_id, stop_name, now)]

AddCustodyEventCall(W, log, truck_id, stop_name, now) ==
    LET tel == W.truck_states[truck_id].last_telemetry
        alert == Alert([alert_id |-> LastUuid(W.alert_db) + 1,
                        trip_id |-> IF W.active_trips[truck_id] = NoTrip
                                    THEN "N/A"
                                    ELSE W.active_trips[truck_id].trip_id,
                        truck_id |-> truck_id, timestamp |-> now,
                        type |-> "WEIGHT_MISMATCH", severity |-> "LOW",
                        location |-> tel.location,
                        agent_name |-> "CCTV Guard",
                        why_flagged |-> "verification performed",
                        status |-> "OPEN"])
    IN  [world |-> IF tel # NoTelemetry
                   THEN [W EXCEPT !.alert_db = Append(@, alert)]
                   ELSE W,
         custody_log |-> Append(log, CustodyEvent(truck_id, stop_name, now)),
         ret |-> CustodyEvent(truck_id, stop_name, now)]

(* get_alerts(truck_id=None): the argument is given or left out; the test  *)
(* "if truck_id" takes an empty string as it takes None.                   *)
NoArgument == [given |-> FALSE]
Argument(truck_id) == [given |-> TRUE, truck_id |-> truck_id]

GetAlertsCall(alerts, arg) ==
    IF arg.given /\ arg.truck_id # ""
    THEN SelectSeq(alerts, LAMBDA a : a.truck_id = arg.truck_id)
    ELSE alerts

(* resolve_alert / unresolve_alert: session.get by primary key alert_id.   *)
AlertIndex(alerts, alert_id) ==
    IF \E i \in 1..Len(alerts) : alerts[i].alert_id = alert_id
    THEN CHOOSE i \in 1..Len(alerts) : alerts[i].alert_id = alert_id
    ELSE 0

SetStatus_Upserts(alerts, alert_id, status) ==
    LET i == AlertIndex(alerts, alert_id)
    IN  IF i = 0
        THEN Append(alerts, [alert_id |-> alert_id, status |-> status])
        ELSE [alerts EXCEPT ![i].status = status]

SetStatus_Flips(alerts, alert_id, status) ==
    LET i == AlertIndex(alerts, alert_id)
    IN  IF i = 0 THEN alerts
        ELSE [alerts EXCEPT ![i].status =
                 IF @ = "OPEN" THEN "RESOLVED" ELSE "OPEN"]

SetStatus(alerts, alert_id, status) ==
    LET i == AlertIndex(alerts, alert_id)
    IN  IF i = 0 THEN alerts ELSE [alerts EXCEPT ![i].status = status]

----------------------------------------------------------------------------
(* The stop episode of a truck, kept beside the program's state: the run   *)
(* of stopped samples the detector has analysed since the last moving      *)
(* sample or the last register_trip.                                       *)
(*   start     timestamp of the episode's first stopped sample, or NoTime  *)
(*   overstays MEDIUM stop alerts the detector returned in the episode     *)
(*   over      a continuing sample was longer than its geofence allows     *)
(*   inside    every sample of the episode was inside a geofence           *)
(*   rearmed   an earlier episode of this trip ended with an overstay      *)
(*   repeats   HIGH stop alerts the detector returned in the episode       *)

NoEpisode ==
    [start |-> NoTime, overstays |-> 0, over |-> FALSE, inside |-> TRUE,
     rearmed |-> FALSE, repeats |-> 0]

IsOverstayAlert(a) ==
    a.type = "SUSPICIOUS_STOP" /\ a.severity = "MEDIUM"
        /\ a.agent_name = "Stop Analyzer"

IsWeightAlert(a) ==
    a.type = "WEIGHT_MISMATCH" /\ a.severity = "CRITICAL"
        /\ a.agent_name = "Weight Guard"

IsUnauthorizedAlert(a) ==
    a.type = "SUSPICIOUS_STOP" /\ a.severity = "HIGH"
        /\ a.agent_name = "Stop Analyzer"

CountAlerts(alerts, P(_)) == Cardinality({i \in 1..Len(alerts) : P(alerts[i])})

EpisodeAfter(ep, trip, data, raw) ==
    LET match == FindAuthorizedStop(data.location, trip.authorized_stops)
        first == ep.start = NoTime
        n == CountAlerts(raw, IsOverstayAlert)
    IN  IF data.speed_kmh < StopSpeedKmh
        THEN [start |-> IF first THEN data.timestamp ELSE ep.start,
              overstays |-> IF first THEN n ELSE ep.overstays + n,
              over |-> /\ ~first
                       /\ \/ ep.over
                          \/ /\ match # NoStop
                             /\ data.timestamp - ep.start
                                  > match.max_duration_minutes,
              inside |-> (first \/ ep.inside) /\ match # NoStop,
              rearmed |-> ep.rearmed,
              repeats |-> (IF first THEN 0 ELSE ep.repeats)
                            + CountAlerts(raw, IsUnauthorizedAlert)]
        ELSE [NoEpisode EXCEPT !.rearmed = ep.rearmed \/ ep.overstays > 0]

----------------------------------------------------------------------------
(* sync_edge_buffer replays the list object buf with a for loop; the model *)
(* takes one step per iteration.  ReplayCap bounds the length the list     *)
(* may reach while it is being replayed.                                   *)

ReplayCap == 2 * MaxBuf

TrackingOf(st) ==
    [is_stopped |-> st.is_stopped, stop_start_time |-> st.stop_start_time,
     alerted_overstay |-> st.alerted_overstay,
     last_telemetry |-> st.last_telemetry]

(* Feeding the samples of buf one by one to process_telemetry. *)
RECURSIVE FeedAll(_, _)
FeedAll(W, buf) ==
    IF buf = <<>> THEN W
    ELSE FeedAll(ProcessTelemetryCall(W, Head(buf)).world, Tail(buf))

(* What feeding buf to the truck while it is online leaves behind. *)
DirectRun(W, truck_id, buf) ==
    LET online == [W EXCEPT !.truck_states[truck_id].edge_offline = FALSE,
                            !.truck_states[truck_id].edge_buffer = <<>>]
        done == FeedAll(online, buf)
    IN  [alert_db |-> done.alert_db,
         tracking |-> TrackingOf(done.truck_states[truck_id])]

----------------------------------------------------------------------------
(* Start-up: __init__ on an empty database.  _inject_mock_data_if_empty    *)
(* stores the demo trip of a truck (no authorized stops), one telemetry    *)
(* row and demo alerts, and _load_state_from_db loads them.  The model     *)
(* keeps one demo truck and its RESOLVED demo alert.                       *)

MockTrip == TripConfig("T0", "A", <<>>)
MockTelemetry == Telemetry("A", 0, 1000, 89, 5)
MockAlert ==
    Alert([alert_id |-> 1, trip_id |-> "T0", truck_id |-> "A",
           timestamp |-> 0, type |-> "WEIGHT_MISMATCH", severity |-> "HIGH",
           location |-> 0, agent_name |-> "Weight Guard",
           why_flagged |-> "Initial sensor drift", status |-> "RESOLVED"])

NoCall == [op |-> "none"]
NoPending == [none |-> TRUE]          \* no call is suspended

EngineStart ==
    /\ trip_db = << MockTrip >>
    /\ alert_db = << MockAlert >>
    /\ telemetry_db = [t \in Trucks |-> IF t = "A" THEN 1 ELSE 0]
    /\ active_trips = [t \in Trucks |-> IF t = "A" THEN MockTrip ELSE NoTrip]
    /\ truck_states =
         [t \in Trucks |->
            IF t = "A" THEN [RestState EXCEPT !.last_telemetry = MockTelemetry]
            ELSE AbsentState]
    /\ sync = NoSync
    /\ last = NoCall
    /\ episode = [t \in Trucks |-> NoEpisode]
    /\ custody_log = <<>>
    /\ pending = NoPending

(* The rows _inject_mock_data_if_empty stored (line 181). *)
MockRows ==
    [t \in Trucks |-> IF t = "A" THEN << TelemetryToDb(MockTelemetry) >>
                     ELSE <<>>]

Init == EngineStart /\ telemetry_rows = MockRows

(* The same start-up for the specifications that never start the engine   *)
(* again: they keep the number of rows of TelemetryDB and not the rows.    *)
InitCounts == EngineStart /\ telemetry_rows = NotKept

----------------------------------------------------------------------------
(* Operations *)

Now == World(active_trips, truck_states, alert_db, telemetry_db,
             telemetry_rows)

Install(W) ==
    /\ active_trips' = W.active_trips
    /\ truck_states' = W.truck_states
    /\ alert_db' = W.alert_db
    /\ telemetry_db' = W.telemetry_db
    /\ telemetry_rows' = W.telemetry_rows

(* refired: this call and the call before it, for the same truck, both     *)
(* got a WEIGHT_MISMATCH alert from the detector.                          *)
ProcessRecord(data, r, via) ==
    [op |-> "process_telemetry", truck |-> data.truck_id, arg |-> data,
     ret |-> r.ret, exc |-> r.exc, raw |-> r.raw, analysed |-> r.analysed,
     via |-> via,
     refired |-> /\ last.op = "process_telemetry"
                 /\ last.truck = data.truck_id
                 /\ CountAlerts(last.raw, IsWeightAlert) = 1
                 /\ CountAlerts(r.raw, IsWeightAlert) = 1]

EpisodeStep(data, r) ==
    IF r.analysed
    THEN [episode EXCEPT ![data.truck_id] =
            EpisodeAfter(@, active_trips[data.truck_id], data, r.raw)]
    ELSE episode

ProcessTelemetry(data) ==
    /\ sync = NoSync
    /\ \E r \in {ProcessTelemetryCall(Now, data)} :
           /\ Len(r.world.alert_db) <= MaxAlerts
           /\ Len(r.world.truck_states[data.truck_id].edge_buffer) <= MaxBuf
           /\ Install(r.world)
           /\ last' = ProcessRecord(data, r, "live")
           /\ episode' = EpisodeStep(data, r)
    /\ UNCHANGED <<trip_db, sync>>
    /\ UNCHANGED <<custody_log, pending>>

RegisterTrip(trip) ==
    /\ sync = NoSync
    /\ LET r == RegisterTripCall(Now, trip_db, trip)
       IN  /\ Install(r.world)
           /\ trip_db' = r.trip_db
           /\ last' = [op |-> "register_trip", truck |-> trip.truck_id,
                       arg |-> trip, exc |-> r.exc]
           /\ episode' = IF r.exc = "none"
                         THEN [episode EXCEPT ![trip.truck_id] = NoEpisode]
                         ELSE episode
    /\ UNCHANGED sync
    /\ UNCHANGED <<custody_log, pending>>

SetEdgeMode(truck_id, offline) ==
    /\ sync = NoSync
    /\ Install(SetEdgeModeCall(Now, truck_id, offline))
    /\ last' = [op |-> "set_edge_mode", truck |-> truck_id, arg |-> offline,
                ret |-> [truck_id |-> truck_id, edge_offline |-> offline]]
    /\ UNCHANGED <<trip_db, sync, episode>>
    /\ UNCHANGED <<custody_log, pending>>

(* sync_edge_buffer, lines 424-426: st, buf, processed = 0 *)
SyncBegin(truck_id) ==
    /\ sync = NoSync
    /\ sync' = [truck |-> truck_id, i |-> 1, processed |-> 0, analysed |-> 0,
                n0 |-> Len(truck_states[truck_id].edge_buffer),
                offline0 |-> truck_states[truck_id].edge_offline,
                expected |-> DirectRun(Now, truck_id,
                                       truck_states[truck_id].edge_buffer)]
    /\ last' = [op |-> "sync_edge_buffer_entered", truck |-> truck_id]
    /\ UNCHANGED <<active_trips, truck_states, trip_db, alert_db,
                   telemetry_db, telemetry_rows, episode>>
    /\ UNCHANGED <<custody_log, pending>>

(* sync_edge_buffer, lines 427-429: one iteration of the for loop *)
SyncStep ==
    /\ sync # NoSync
    /\ sync.i <= Len(truck_states[sync.truck].edge_buffer)
    /\ LET data == truck_states[sync.truck].edge_buffer[sync.i]
           r == ProcessTelemetryCall(Now, data)
       IN  /\ TelemetryRows(r.world.telemetry_db) <= MaxTel + MaxBuf
           /\ Len(r.world.alert_db) <= MaxAlerts
           /\ Len(r.world.truck_states[sync.truck].edge_buffer) <= ReplayCap
           /\ Install(r.world)
           /\ last' = ProcessRecord(data, r, "sync")
           /\ episode' = EpisodeStep(data, r)
           /\ sync' = IF r.exc # "none" THEN NoSync
                      ELSE [sync EXCEPT !.i = @ + 1, !.processed = @ + 1,
                                        !.analysed = @ + IF r.analysed THEN 1 ELSE 0]
    /\ UNCHANGED trip_db
    /\ UNCHANGED <<custody_log, pending>>

(* sync_edge_buffer, lines 430-432: the loop has ended *)
SyncEnd ==
    /\ sync # NoSync
    /\ sync.i > Len(truck_states[sync.truck].edge_buffer)
    /\ truck_states' =
         IF truck_states[sync.truck].present
         THEN [truck_states EXCEPT ![sync.truck].edge_buffer = <<>>,
                                   ![sync.truck].edge_offline = FALSE]
         ELSE truck_states
    /\ last' = [op |-> "sync_edge_buffer", truck |-> sync.truck,
                ret |-> [processed |-> sync.processed, edge_offline |-> FALSE],
                n0 |-> sync.n0, offline0 |-> sync.offline0,
                analysed |-> sync.analysed, expected |-> sync.expected]
    /\ sync' = NoSync
    /\ UNCHANGED <<active_trips, trip_db, alert_db, telemetry_db,
                   telemetry_rows, episode>>
    /\ UNCHANGED <<custody_log, pending>>

NoAlert == [none |-> TRUE]

AlertOf(alerts, alert_id) ==
    IF AlertIndex(alerts, alert_id) = 0 THEN NoAlert
    ELSE alerts[AlertIndex(alerts, alert_id)]

AlertIdArgs == 1..(MaxAlerts + 1)

ResolveAlert(alert_id) ==
    /\ sync = NoSync
    /\ alert_db' = SetStatus(alert_db, alert_id, "RESOLVED")
    /\ last' = [op |-> "resolve_alert", arg |-> alert_id,
                before |-> AlertOf(alert_db, alert_id),
                ret |-> AlertOf(alert_db', alert_id)]
    /\ UNCHANGED <<active_trips, truck_states, trip_db, telemetry_db,
                   telemetry_rows, sync, episode>>
    /\ UNCHANGED <<custody_log, pending>>

UnresolveAlert(alert_id) ==
    /\ sync = NoSync
    /\ alert_db' = SetStatus(alert_db, alert_id, "OPEN")
    /\ last' = [op |-> "unresolve_alert", arg |-> alert_id,
                before |-> AlertOf(alert_db, alert_id),
                after_resolve |-> last.op = "resolve_alert" /\ last.arg = alert_id,
                original |-> IF last.op = "resolve_alert" /\ last.arg = alert_id
                             THEN last.before ELSE NoAlert,
                ret |-> AlertOf(alert_db', alert_id)]
    /\ UNCHANGED <<active_trips, truck_states, trip_db, telemetry_db,
                   telemetry_rows, sync, episode>>
    /\ UNCHANGED <<custody_log, pending>>

StopNames == {"rest"}
ClockTimes == {6}

AddCustodyEvent(truck_id, stop_name, now) ==
    /\ sync = NoSync
    /\ Len(custody_log) < MaxCustody
    /\ LET r == AddCustodyEventCall(Now, custody_log, truck_id, stop_name, now)
       IN  /\ Len(r.world.alert_db) <= MaxAlerts
           /\ Install(r.world)
           /\ custody_log' = r.custody_log
           /\ last' = [op |-> "add_custody_event", truck |-> truck_id,
                       arg |-> stop_name, ret |-> r.ret]
    /\ UNCHANGED <<trip_db, sync, episode, pending>>

(* A call on another thread runs lines 311-320 and the detector up to line *)
(* 74, and is suspended there.                                             *)
SuspendAtOverstay(data) ==
    /\ sync = NoSync
    /\ pending = NoPending
    /\ active_trips[data.truck_id] # NoTrip
    /\ ~truck_states[data.truck_id].edge_offline
    /\ ReachesOverstayAlert(active_trips[data.truck_id], data,
                            truck_states[data.truck_id])
    /\ telemetry_db' = PersistTelemetry(Now, data).telemetry_db
    /\ telemetry_rows' = PersistTelemetry(Now, data).telemetry_rows
    /\ pending' = [data |-> data, trip |-> active_trips[data.truck_id]]
    /\ last' = [op |-> "process_telemetry_entered", truck |-> data.truck_id,
                arg |-> data]
    /\ UNCHANGED <<active_trips, truck_states, trip_db, alert_db, sync,
                   episode, custody_log>>

(* The suspended call runs to its end. *)
ResumeAtOverstay ==
    /\ pending # NoPending
    /\ LET r == ResumeOverstayCall(Now, pending)
       IN  /\ Len(r.world.alert_db) <= MaxAlerts
           /\ Install(r.world)
           /\ last' = ProcessRecord(pending.data, r, "resumed")
           /\ episode' = EpisodeStep(pending.data, r)
    /\ pending' = NoPending
    /\ UNCHANGED <<trip_db, sync, custody_log>>

(* A live process_telemetry call, on another thread, for the truck whose   *)
(* buffer sync_edge_buffer is replaying: it runs between two iterations of *)
(* the loop of lines 427-429.                                              *)
LiveDuringSync(data) ==
    /\ sync # NoSync
    /\ data.truck_id = sync.truck
    /\ LET r == ProcessTelemetryCall(Now, data)
       IN  /\ TelemetryRows(r.world.telemetry_db) <= MaxTel + MaxBuf
           /\ Len(r.world.alert_db) <= MaxAlerts
           /\ Len(r.world.truck_states[data.truck_id].edge_buffer) <= ReplayCap
           /\ Install(r.world)
           /\ last' = ProcessRecord(data, r, "during_sync")
           /\ episode' = EpisodeStep(data, r)
    /\ UNCHANGED <<trip_db, sync, custody_log, pending>>

(* process_telemetry whose write of the sample fails (lines 317-320). *)
TelemetryWriteFails(data) ==
    /\ sync = NoSync
    /\ active_trips[data.truck_id] # NoTrip
    /\ \E r \in {PersistTelemetryFails(Now, data)} :
           /\ Install(r.world)
           /\ last' = ProcessRecord(data, r, "telemetry_write_failed")
           /\ episode' = EpisodeStep(data, r)
    /\ UNCHANGED <<trip_db, sync, custody_log, pending>>

(* process_telemetry of an online truck whose write of the new alerts      *)
(* fails (lines 338-342): the sample is stored, the agents have run and    *)
(* returned alerts.                                                        *)
AlertWriteFails(data) ==
    /\ sync = NoSync
    /\ active_trips[data.truck_id] # NoTrip
    /\ ~truck_states[data.truck_id].edge_offline
    /\ ProcessTelemetryCall(Now, data).exc = "none"
    /\ ProcessTelemetryCall(Now, data).ret # <<>>
    /\ \E r \in {PersistAlertsFails(PersistTelemetry(Now, data), data)} :
           /\ Install(r.world)
           /\ last' = ProcessRecord(data, r, "alert_write_failed")
           /\ episode' = EpisodeStep(data, r)
    /\ UNCHANGED <<trip_db, sync, custody_log, pending>>

PredictRisk(truck_id) ==
    /\ sync = NoSync
    /\ last' = [op |-> "predict_risk", truck |-> truck_id,
                ret |-> PredictRiskCall(Now, truck_id)]
    /\ UNCHANGED <<active_trips, truck_states, trip_db, alert_db,
                   telemetry_db, telemetry_rows,
                   sync, episode, custody_log, pending>>

TruckIdArgs == Trucks \cup {"C", ""}

GetAlertsArgs == { Argument(t) : t \in TruckIdArgs } \cup { NoArgument }

GetAlerts(arg) ==
    /\ sync = NoSync
    /\ last' = [op |-> "get_alerts", arg |-> arg,
                ret |-> GetAlertsCall(alert_db, arg)]
    /\ UNCHANGED <<active_trips, truck_states, trip_db, alert_db,
                   telemetry_db, telemetry_rows,
                   sync, episode, custody_log, pending>>

(* Start-up on a database that holds trips: a restart of the engine. *)

(* __init__, lines 20-22: the dicts and the custody log are empty. *)
EmptyMemory ==
    [active_trips |-> [t \in Trucks |-> NoTrip],
     truck_states |-> [t \in Trucks |-> AbsentState]]

(* line 135: select(TelemetryDB).where(truck_id == ...)                    *)
(* .order_by(timestamp.desc()).limit(1).  rows are the rows of the truck;  *)
(* the result is one of the rows with the greatest timestamp (the query    *)
(* does not order rows of equal timestamps).                               *)
LatestTelemetry(rows) ==
    { rows[i] : i \in { j \in 1..Len(rows) :
                          \A k \in 1..Len(rows) :
                              rows[k].timestamp <= rows[j].timestamp } }

(* What first() of that query can give for each truck: None for a truck    *)
(* without rows.                                                           *)
LatestChoices(rows) ==
    { latest \in [Trucks -> { NoTelemetry } \cup
                            UNION { LatestTelemetry(rows[t]) : t \in Trucks }] :
        \A t \in Trucks :
            IF rows[t] = <<>> THEN latest[t] = NoTelemetry
            ELSE latest[t] \in LatestTelemetry(rows[t]) }

(* _load_state_from_db, lines 120-139: the loop over the rows of           *)
(* TripConfigDB, in the order select(TripConfigDB) gives them (SQLite      *)
(* scans the table in the order of insertion).  M is the memory so far,    *)
(* latest[t] the row line 135 gets for truck t.  _db_to_trip gives back    *)
(* the TripConfig that _trip_to_db stored, field by field.                 *)
RECURSIVE LoadStateFromDb(_, _, _)
LoadStateFromDb(M, trips, latest) ==
    IF trips = <<>> THEN M
    ELSE LET trip == Head(trips)
             latest_tel == latest[trip.truck_id]
             state == IF latest_tel # NoTelemetry
                      THEN [RestState EXCEPT
                              !.last_telemetry = DbToTelemetry(latest_tel)]
                      ELSE RestState
         IN  LoadStateFromDb(
                 [active_trips |->
                      [M.active_trips EXCEPT ![trip.truck_id] = trip],
                  truck_states |->
                      [M.truck_states EXCEPT ![trip.truck_id] = state]],
                 Tail(trips), latest)

(* The process ends and the engine is constructed again (__init__, lines   *)
(* 17-30) on the database it left.  A trip is stored, the demo trip at     *)
(* least, so _inject_mock_data_if_empty returns at line 153 and the tables *)
(* are as they were.  What was in memory only is gone: the tracking state, *)
(* the offline flag and the buffer, the custody log, the calls under way.  *)
Restart ==
    /\ telemetry_rows # NotKept
    /\ trip_db # <<>>
    /\ \E latest \in LatestChoices(telemetry_rows) :
          \E M \in { LoadStateFromDb(EmptyMemory, trip_db, latest) } :
              /\ active_trips' = M.active_trips
              /\ truck_states' = M.truck_states
    /\ custody_log' = <<>>
    /\ sync' = NoSync
    /\ pending' = NoPending
    /\ episode' = [t \in Trucks |-> NoEpisode]
    /\ last' = [op |-> "restart"]
    /\ UNCHANGED <<trip_db, alert_db, telemetry_db, telemetry_rows>>

Next ==
    \/ \E data \in Samples :
          TelemetryRows(telemetry_db) < MaxTel /\ ProcessTelemetry(data)
    \/ \E trip \in Trips : RegisterTrip(trip)
    \/ \E truck_id \in Trucks, offline \in BOOLEAN : SetEdgeMode(truck_id, offline)
    \/ \E truck_id \in Trucks : SyncBegin(truck_id)
    \/ SyncStep
    \/ SyncEnd
    \/ \E alert_id \in AlertIdArgs : ResolveAlert(alert_id)
    \/ \E alert_id \in AlertIdArgs : UnresolveAlert(alert_id)
    \/ \E truck_id \in Trucks, stop_name \in StopNames, now \in ClockTimes :
          AddCustodyEvent(truck_id, stop_name, now)
    \/ \E data \in Samples :
          TelemetryRows(telemetry_db) < MaxTel /\ SuspendAtOverstay(data)
    \/ ResumeAtOverstay
    \/ \E data \in Samples : LiveDuringSync(data)
    \/ \E data \in Samples :
          TelemetryRows(telemetry_db) < MaxTel /\ TelemetryWriteFails(data)
    \/ \E data \in Samples :
          TelemetryRows(telemetry_db) < MaxTel /\ AlertWriteFails(data)
    \/ \E truck_id \in Trucks : PredictRisk(truck_id)
    \/ \E arg \in GetAlertsArgs : GetAlerts(arg)
    \/ Restart

Spec == Init /\ [][Next]_vars

(* Stop tracking of one truck: telemetry and trip registration. *)
NextStops ==
    \/ \E data \in StopSamples :
          TelemetryRows(telemetry_db) < MaxStopTel /\ ProcessTelemetry(data)
    \/ \E trip \in StopTrips : RegisterTrip(trip)

SpecStops == InitCounts /\ [][NextStops]_vars

(* Edge-offline buffering and its replay. *)
NextEdge ==
    \/ \E data \in EdgeSamples :
          TelemetryRows(telemetry_db) < MaxTel /\ ProcessTelemetry(data)
    \/ \E trip \in EdgeTrips : RegisterTrip(trip)
    \/ \E truck_id \in Trucks, offline \in BOOLEAN : SetEdgeMode(truck_id, offline)
    \/ \E truck_id \in Trucks : SyncBegin(truck_id)
    \/ SyncStep
    \/ SyncEnd

SpecEdge == InitCounts /\ [][NextEdge]_vars

(* The trip registry: registered and unregistered trucks. *)
NextTrips ==
    \/ \E data \in Samples :
          TelemetryRows(telemetry_db) < MaxTel /\ ProcessTelemetry(data)
    \/ \E trip \in Trips : RegisterTrip(trip)
    \/ \E truck_id \in Trucks, offline \in BOOLEAN : SetEdgeMode(truck_id, offline)

SpecTrips == InitCounts /\ [][NextTrips]_vars

(* The alert log and its status changes. *)
NextAlerts ==
    \/ \E data \in Samples :
          TelemetryRows(telemetry_db) < MaxTel /\ ProcessTelemetry(data)
    \/ \E trip \in Trips : RegisterTrip(trip)
    \/ \E alert_id \in AlertIdArgs : ResolveAlert(alert_id)
    \/ \E alert_id \in AlertIdArgs : UnresolveAlert(alert_id)

SpecAlerts == InitCounts /\ [][NextAlerts]_vars

----------------------------------------------------------------------------
(* Every operation that reaches the alert log, for one truck. *)
LogAlertIds == {1, 2}

NextLog ==
    \/ \E data \in EdgeSamples :
          TelemetryRows(telemetry_db) < MaxLogTel /\ ProcessTelemetry(data)
    \/ \E trip \in EdgeTrips : RegisterTrip(trip)
    \/ \E offline \in BOOLEAN : SetEdgeMode("A", offline)
    \/ SyncBegin("A")
    \/ SyncStep
    \/ SyncEnd
    \/ \E alert_id \in LogAlertIds : ResolveAlert(alert_id)
    \/ \E alert_id \in LogAlertIds : UnresolveAlert(alert_id)
    \/ \E stop_name \in StopNames, now \in ClockTimes :
          AddCustodyEvent("A", stop_name, now)

SpecLog == InitCounts /\ [][NextLog]_vars

(* Two threads in process_telemetry for one truck. *)
NextThreads ==
    \/ \E data \in EdgeSamples :
          TelemetryRows(telemetry_db) < MaxTel /\ ProcessTelemetry(data)
    \/ \E trip \in StopTrips : pending = NoPending /\ RegisterTrip(trip)
    \/ \E data \in EdgeSamples :
          TelemetryRows(telemetry_db) < MaxTel /\ SuspendAtOverstay(data)
    \/ ResumeAtOverstay

SpecThreads == InitCounts /\ [][NextThreads]_vars

(* The replay of a buffer with live telemetry arriving for the truck. *)
NextReplay ==
    \/ \E data \in EdgeSamples :
          TelemetryRows(telemetry_db) < MaxTel /\ ProcessTelemetry(data)
    \/ \E trip \in EdgeTrips : RegisterTrip(trip)
    \/ \E offline \in BOOLEAN : SetEdgeMode("A", offline)
    \/ SyncBegin("A")
    \/ SyncStep
    \/ SyncEnd
    \/ \E data \in EdgeSamples : LiveDuringSync(data)

SpecReplay == InitCounts /\ [][NextReplay]_vars

(* Helpers of the properties *)

Registered(truck_id) == active_trips[truck_id] # NoTrip

InsideSomeGeofence(location, stops) ==
    \E i \in 1..Len(stops) :
        CalculateDistance(location, stops[i].location) <= stops[i].radius_meters

WeightDropOutsideSafeZone(trip, data) ==
    /\ data.weight_kg < trip.total_expected_weight_kg - trip.weight_tolerance_kg
    /\ CalculateDistance(data.location, trip.destination_location) > SafeZoneMeters

(* The last call was process_telemetry and the detector analysed its sample *)
Analysed == last.op = "process_telemetry" /\ last.analysed

----------------------------------------------------------------------------
(* C1: for a registered truck that is not offline, process_telemetry of a  *)
(* moving sample (speed >= 5) whose weight is below expected minus         *)
(* tolerance, more than 500 m from the destination, returns exactly two    *)
(* alerts: a WEIGHT_MISMATCH alert of severity CRITICAL followed by the    *)
(* SOP escalation alert of severity CRITICAL.                              *)
C1_ReturnsWeightAlertAndEscalation ==
    ( /\ Analysed
      /\ last.arg.speed_kmh >= StopSpeedKmh
      /\ WeightDropOutsideSafeZone(active_trips[last.truck], last.arg) )
    => /\ last.exc = "none"
       /\ Len(last.ret) = 2
       /\ last.ret[1].type = "WEIGHT_MISMATCH"
       /\ last.ret[1].severity = "CRITICAL"
       /\ last.ret[2].type = "ROUTE_DEVIATION"
       /\ last.ret[2].severity = "CRITICAL"

(* C2: in one stop episode spent inside authorized geofences the detector  *)
(* emits at most one MEDIUM overstay alert, and exactly one once a         *)
(* continuing-stop sample has lasted longer than its geofence allows,      *)
(* however many stopped samples follow.                                    *)
C2_OneOverstayPerEpisode ==
    \A t \in Trucks :
        episode[t].inside =>
            /\ episode[t].overstays <= 1
            /\ episode[t].over => episode[t].overstays = 1

(* C2 witness: a further stopped sample, past the geofence's limit, after  *)
(* the episode's overstay alert: it emits nothing.                         *)
C2_Witness ==
    /\ Analysed
    /\ last.arg.speed_kmh < StopSpeedKmh
    /\ episode[last.truck].inside
    /\ episode[last.truck].overstays = 1
    /\ CountAlerts(last.raw, IsOverstayAlert) = 0
    /\ last.arg.timestamp - episode[last.truck].start
         > FindAuthorizedStop(last.arg.location,
                              active_trips[last.truck].authorized_stops)
               .max_duration_minutes

(* C3: every continuing-stop sample outside every authorized geofence      *)
(* emits one HIGH SUSPICIOUS_STOP alert if the time since the stop began   *)
(* is strictly greater than 5 minutes, on every such sample, and none at   *)
(* 5 minutes or less.                                                      *)
C3_UnauthorizedStopEverySample ==
    [][ ( /\ last'.op = "process_telemetry"
          /\ last'.analysed
          /\ last'.arg.speed_kmh < StopSpeedKmh
          /\ episode[last'.truck].start # NoTime
          /\ ~InsideSomeGeofence(last'.arg.location,
                                 active_trips[last'.truck].authorized_stops) )
        => /\ truck_states[last'.truck].stop_start_time
                = episode[last'.truck].start
           /\ CountAlerts(last'.raw, IsUnauthorizedAlert)
                = IF last'.arg.timestamp
                       - truck_states[last'.truck].stop_start_time
                     > UnauthorizedGraceMinutes
                  THEN 1 ELSE 0
           /\ CountAlerts(last'.raw, IsOverstayAlert) = 0 ]_vars

(* C3 witness: a HIGH alert on a sample that follows a sample of the same  *)
(* stop that already was more than 5 minutes in.                           *)
C3_Witness ==
    /\ Analysed
    /\ CountAlerts(last.raw, IsUnauthorizedAlert) = 1
    /\ last.arg.timestamp - episode[last.truck].start > UnauthorizedGraceMinutes
    /\ episode[last.truck].repeats >= 2

(* C4: a sample with speed >= 5 resets is_stopped, stop_start_time and     *)
(* alerted_overstay, also after an overstay alert; the next stop episode   *)
(* measures its duration from its own first stopped sample and emits its   *)
(* own overstay alert once that duration exceeds the geofence's limit.     *)
C4_ResumeRearmsOverstay ==
    /\ ( Analysed /\ last.arg.speed_kmh >= StopSpeedKmh )
         => /\ ~truck_states[last.truck].is_stopped
            /\ truck_states[last.truck].stop_start_time = NoTime
            /\ ~truck_states[last.truck].alerted_overstay
    /\ \A t \in Trucks :
         ( episode[t].rearmed /\ episode[t].start # NoTime )
           => /\ truck_states[t].stop_start_time = episode[t].start
              /\ episode[t].over => episode[t].overstays = 1

(* C4 witness: the second overstay alert, in an episode that began after   *)
(* a moving sample ended an episode with an overstay alert.                *)
C4_Witness ==
    /\ Analysed
    /\ episode[last.truck].rearmed
    /\ episode[last.truck].inside
    /\ CountAlerts(last.raw, IsOverstayAlert) = 1

----------------------------------------------------------------------------
(* C5: while a registered truck is offline, every process_telemetry call   *)
(* for it returns an empty list and changes nothing except appending the   *)
(* sample to the end of the truck's edge_buffer: the tracking fields, the  *)
(* alert log, the registry and the telemetry store are unchanged.  The     *)
(* step's call is last', the state before it the unprimed variables.       *)
C5_OfflineChangesOnlyBuffer ==
    [][ ( /\ last'.op = "process_telemetry"
          /\ Registered(last'.truck)
          /\ truck_states[last'.truck].edge_offline )
        => /\ last'.ret = <<>>
           /\ last'.exc = "none"
           /\ truck_states' =
                [truck_states EXCEPT
                   ![last'.truck].edge_buffer = Append(@, last'.arg)]
           /\ alert_db' = alert_db
           /\ active_trips' = active_trips
           /\ trip_db' = trip_db
           /\ telemetry_db' = telemetry_db ]_vars

(* C6: for a registered truck that is offline with N buffered samples,     *)
(* sync_edge_buffer runs detection on each buffered sample exactly once    *)
(* (never replays more than N samples, and analyses every sample it        *)
(* replays) and ends with processed = N, the buffer empty and the truck    *)
(* online.                                                                 *)
C6_SyncDrainsBuffer ==
    /\ ( sync # NoSync /\ sync.offline0 /\ Registered(sync.truck) )
         => /\ sync.processed <= sync.n0
            /\ sync.analysed = sync.processed
    /\ ( last.op = "sync_edge_buffer" /\ last.offline0 /\ Registered(last.truck) )
         => /\ last.ret.processed = last.n0
            /\ last.analysed = last.n0
            /\ truck_states[last.truck].edge_buffer = <<>>
            /\ ~truck_states[last.truck].edge_offline

(* C7: once sync_edge_buffer has replayed the N samples buffered while the *)
(* truck was offline, the alert log, the stop-tracking state and           *)
(* last_telemetry are those that feeding the same samples directly to      *)
(* process_telemetry, online, leaves.                                      *)
C7_ReplayEqualsDirect ==
    /\ ( sync # NoSync /\ sync.offline0 /\ Registered(sync.truck)
           /\ sync.processed >= sync.n0 )
         => /\ alert_db = sync.expected.alert_db
            /\ TrackingOf(truck_states[sync.truck]) = sync.expected.tracking
    /\ ( last.op = "sync_edge_buffer" /\ last.offline0 /\ Registered(last.truck) )
         => /\ alert_db = last.expected.alert_db
            /\ TrackingOf(truck_states[last.truck]) = last.expected.tracking

----------------------------------------------------------------------------
(* C8: process_telemetry for a truck with no registered trip returns an    *)
(* empty list and changes no state at all: no tracking state is created or *)
(* modified, nothing is buffered, nothing is written to the telemetry      *)
(* store or the alert log, also after set_edge_mode for that truck.        *)
C8_UnregisteredIsNoOp ==
    [][ ( last'.op = "process_telemetry" /\ ~Registered(last'.truck) )
        => /\ last'.ret = <<>>
           /\ last'.exc = "none"
           /\ UNCHANGED <<active_trips, truck_states, trip_db, alert_db,
                          telemetry_db, sync, episode>> ]_vars

(* C8 witness: the call came for an unregistered truck that set_edge_mode  *)
(* had switched offline: nothing was buffered and nothing stored.          *)
C8_Witness ==
    /\ last.op = "process_telemetry"
    /\ ~Registered(last.truck)
    /\ truck_states[last.truck].present
    /\ truck_states[last.truck].edge_offline
    /\ truck_states[last.truck].edge_buffer = <<>>
    /\ truck_states[last.truck].last_telemetry = NoTelemetry
    /\ telemetry_db[last.truck] = 0

(* C9: register_trip(trip) succeeds for a truck with or without a trip,    *)
(* also for a trip_id that is already stored, and leaves                   *)
(* active_trips[truck_id] = trip and the truck's tracking state at rest:   *)
(* not stopped, no stop start, no overstay flag, no telemetry, not offline.*)
C9_RegisterTripUpserts ==
    last.op = "register_trip"
    => /\ last.exc = "none"
       /\ active_trips[last.truck] = last.arg
       /\ ~truck_states[last.truck].is_stopped
       /\ truck_states[last.truck].stop_start_time = NoTime
       /\ ~truck_states[last.truck].alerted_overstay
       /\ truck_states[last.truck].last_telemetry = NoTelemetry
       /\ ~truck_states[last.truck].edge_offline

(* C10: resolve_alert leaves the alert RESOLVED and unresolve_alert leaves *)
(* it OPEN whatever its status was, changing no other field; resolve_alert *)
(* followed by unresolve_alert of the same alert leaves it OPEN with every *)
(* other field as before the two calls.                                    *)
C10_ResolveUnresolveRoundTrip ==
    /\ ( last.op = "resolve_alert" /\ last.before # NoAlert )
         => AlertOf(alert_db, last.arg)
              = [last.before EXCEPT !.status = "RESOLVED"]
    /\ ( last.op = "unresolve_alert" /\ last.before # NoAlert )
         => AlertOf(alert_db, last.arg)
              = [last.before EXCEPT !.status = "OPEN"]
    /\ ( last.op = "unresolve_alert" /\ last.after_resolve
           /\ last.original # NoAlert )
         => AlertOf(alert_db, last.arg)
              = [last.original EXCEPT !.status = "OPEN"]

(* C10 witness: an overstay alert the engine logged as OPEN was resolved   *)
(* and then unresolved.                                                    *)
C10_Witness ==
    /\ last.op = "unresolve_alert"
    /\ last.after_resolve
    /\ last.original # NoAlert
    /\ last.original.status = "OPEN"
    /\ last.original.agent_name = "Stop Analyzer"
    /\ last.before.status = "RESOLVED"
    /\ AlertOf(alert_db, last.arg).status = "OPEN"

----------------------------------------------------------------------------
(* C11: resolve_alert and unresolve_alert with an alert_id that is not in  *)
(* the alert log return no alert (None, the endpoint's 404) and leave      *)
(* every alert of the log and all tracking state unchanged.                *)
C11_UnknownAlertIsNotFound ==
    [][ ( /\ last'.op \in {"resolve_alert", "unresolve_alert"}
          /\ AlertIndex(alert_db, last'.arg) = 0 )
        => /\ last'.ret = NoAlert
           /\ UNCHANGED <<alert_db, truck_states, active_trips, trip_db,
                          telemetry_db, custody_log>> ]_vars

(* C11 witness: unresolve_alert of an unknown id returned nothing while    *)
(* the log holds an OPEN and a RESOLVED alert.                             *)
C11_Witness ==
    /\ last.op = "unresolve_alert"
    /\ last.before = NoAlert
    /\ last.ret = NoAlert
    /\ AlertIndex(alert_db, last.arg) = 0
    /\ \E i \in 1..Len(alert_db) : alert_db[i].status = "OPEN"
    /\ \E i \in 1..Len(alert_db) : alert_db[i].status = "RESOLVED"

(* C12: for every sample the detector analyses, whatever the truck's       *)
(* history or stop state, it returns exactly one WEIGHT_MISMATCH alert if  *)
(* weight_kg < expected - tolerance and the distance to the destination    *)
(* is > 500 m (both strict), and none otherwise; the rule fires again on   *)
(* every sample while the condition holds.                                 *)
C12_WeightRuleIsStrictAndStateless ==
    Analysed
    => CountAlerts(last.raw, IsWeightAlert)
         = IF /\ last.arg.weight_kg
                   < active_trips[last.truck].total_expected_weight_kg
                       - active_trips[last.truck].weight_tolerance_kg
              /\ CalculateDistance(last.arg.location,
                     active_trips[last.truck].destination_location) > 500
           THEN 1 ELSE 0

(* C12 witness: the rule fired on two consecutive samples of a truck, the  *)
(* second a continuing sample of a stop.                                   *)
C12_Witness ==
    /\ Analysed
    /\ last.refired
    /\ last.arg.speed_kmh < StopSpeedKmh
    /\ truck_states[last.truck].is_stopped
    /\ truck_states[last.truck].stop_start_time < last.arg.timestamp

(* The raw alerts evaluate escalates (sop_engine.py:18 and 23). *)
IsSopTrigger(a) ==
    \/ a.type = "WEIGHT_MISMATCH"
    \/ a.type = "SUSPICIOUS_STOP" /\ a.severity = "HIGH"

(* C13: evaluate returns exactly one escalation alert per raw              *)
(* WEIGHT_MISMATCH alert (CRITICAL, ROUTE_DEVIATION) and one per raw HIGH  *)
(* SUSPICIOUS_STOP alert (MEDIUM, SUSPICIOUS_STOP), in the order of their  *)
(* triggers, none for any other raw alert, each carrying the trip_id,      *)
(* truck_id, timestamp and location of its trigger.                        *)
C13_EvaluateEscalatesEachTrigger ==
    Analysed
    => LET triggers == SelectSeq(last.raw, IsSopTrigger)
           sop_actions == Evaluate(last.raw, 0)
       IN  /\ ~Raises(sop_actions)
           /\ Len(sop_actions) = Len(triggers)
           /\ \A i \in 1..Len(triggers) :
                /\ sop_actions[i].type =
                     IF triggers[i].type = "WEIGHT_MISMATCH"
                     THEN "ROUTE_DEVIATION" ELSE "SUSPICIOUS_STOP"
                /\ sop_actions[i].severity =
                     IF triggers[i].type = "WEIGHT_MISMATCH"
                     THEN "CRITICAL" ELSE "MEDIUM"
                /\ sop_actions[i].trip_id = triggers[i].trip_id
                /\ sop_actions[i].truck_id = triggers[i].truck_id
                /\ sop_actions[i].timestamp = triggers[i].timestamp
                /\ sop_actions[i].location = triggers[i].location

(* C14: for an online registered truck, process_telemetry returns all raw  *)
(* detector alerts followed by all SOP escalation alerts; when the call    *)
(* ends the alert log is the log before the call plus exactly the returned *)
(* alerts, and last_telemetry is the sample just processed.                *)
C14_ReturnsRawThenSopAndLogsThem ==
    [][ ( last'.op = "process_telemetry" /\ last'.analysed )
        => /\ last'.exc = "none"
           /\ SubSeq(last'.ret, 1, Len(last'.raw)) = last'.raw
           /\ Len(last'.ret)
                = Len(last'.raw) + Len(SelectSeq(last'.raw, IsSopTrigger))
           /\ alert_db' = alert_db \o last'.ret
           /\ truck_states'[last'.truck].last_telemetry = last'.arg ]_vars

(* C15: in every reachable state the trucks that have a tracking state are *)
(* exactly the trucks that have a registered trip.                         *)
C15_TrackingStateIffTrip ==
    \A t \in Trucks : truck_states[t].present <=> Registered(t)

(* C16: in every reachable state of every truck alerted_overstay implies   *)
(* is_stopped; alerted_overstay is false right after any analysed sample   *)
(* with speed >= 5, after register_trip, and on the first stopped sample   *)
(* of every new stop episode.                                              *)
C16_OverstayFlagOnlyWhileStopped ==
    /\ [](\A t \in Trucks :
            truck_states[t].alerted_overstay => truck_states[t].is_stopped)
    /\ [][ /\ ( /\ last'.op = "process_telemetry"
                /\ last'.analysed
                /\ \/ last'.arg.speed_kmh >= StopSpeedKmh
                   \/ ~truck_states[last'.truck].is_stopped )
              => ~truck_states'[last'.truck].alerted_overstay
           /\ last'.op = "register_trip"
              => ~truck_states'[last'.truck].alerted_overstay ]_vars

(* C17: in every reachable state of every truck a non-empty edge_buffer    *)
(* implies edge_offline; the buffer is emptied and the offline flag        *)
(* cleared together, never one without the other.                          *)
C17_BufferOnlyWhileOffline ==
    /\ [](\A t \in Trucks :
            truck_states[t].edge_buffer # <<>> => truck_states[t].edge_offline)
    /\ [][ \A t \in Trucks :
             /\ ( truck_states[t].edge_offline
                    /\ ~truck_states'[t].edge_offline )
                => truck_states'[t].edge_buffer = <<>>
             /\ ( truck_states[t].edge_buffer # <<>>
                    /\ truck_states'[t].edge_buffer = <<>> )
                => ~truck_states'[t].edge_offline ]_vars

(* C18: the alert log is append-only across every engine operation: an     *)
(* alert once in the log is never removed or merged, its fields other than *)
(* status never change, and its status changes only through resolve_alert  *)
(* or unresolve_alert called with its own alert_id.                        *)
C18_AlertLogAppendOnly ==
    [][ /\ Len(alert_db') >= Len(alert_db)
        /\ \A i \in 1..Len(alert_db) :
             /\ [alert_db'[i] EXCEPT !.status = "OPEN"]
                  = [alert_db[i] EXCEPT !.status = "OPEN"]
             /\ alert_db'[i].status # alert_db[i].status
                => /\ last'.op \in {"resolve_alert", "unresolve_alert"}
                   /\ last'.arg = alert_db[i].alert_id ]_vars

(* C18 witness: the log has grown to three alerts, by process_telemetry    *)
(* and then by add_custody_event, after a register_trip, and the overstay  *)
(* alert in it has been resolved.                                          *)
C18_Witness ==
    /\ last.op = "add_custody_event"
    /\ Len(alert_db) = 3
    /\ alert_db[1] = MockAlert
    /\ alert_db[2].agent_name = "Stop Analyzer"
    /\ alert_db[2].status = "RESOLVED"
    /\ alert_db[3].agent_name = "CCTV Guard"
    /\ alert_db[3].trip_id = "T1"

(* C19: two process_telemetry calls for one truck never interleave their   *)
(* read-modify-write of its tracking state: samples of one overstayed stop *)
(* episode processed concurrently yield exactly one overstay alert and a   *)
(* consistent (is_stopped, stop_start_time, alerted_overstay) tuple.       *)
C19_OneOverstayUnderConcurrency ==
    \A t \in Trucks :
        /\ episode[t].inside => episode[t].overstays <= 1
        /\ truck_states[t].alerted_overstay => truck_states[t].is_stopped
        /\ truck_states[t].is_stopped
             <=> truck_states[t].stop_start_time # NoTime

(* C20: while sync_edge_buffer replays a truck's buffer, no live           *)
(* process_telemetry call for that truck is analysed between two replayed  *)
(* samples, and a live sample arriving during the replay is not lost: it   *)
(* is kept, to be analysed after the replay.                               *)
C20_NoLiveAnalysisDuringReplay ==
    [][ ( /\ sync # NoSync
          /\ last'.op = "process_telemetry"
          /\ last'.via = "during_sync"
          /\ last'.truck = sync.truck )
        => /\ ( sync.processed >= 1
                  /\ sync.i <= Len(truck_states[sync.truck].edge_buffer) )
              => ~last'.analysed
           /\ \/ last'.analysed
              \/ \E i \in 1..Len(truck_states'[sync.truck].edge_buffer) :
                    truck_states'[sync.truck].edge_buffer[i] = last'.arg ]_vars

----------------------------------------------------------------------------
(* The fleet: the operations that take a truck_id, for two trucks. *)
NextFleet ==
    \/ \E data \in Samples :
          TelemetryRows(telemetry_db) < MaxLogTel /\ ProcessTelemetry(data)
    \/ \E trip \in Trips : RegisterTrip(trip)
    \/ \E truck_id \in Trucks, offline \in BOOLEAN : SetEdgeMode(truck_id, offline)
    \/ \E truck_id \in Trucks : SyncBegin(truck_id)
    \/ SyncStep
    \/ SyncEnd
    \/ \E truck_id \in Trucks, stop_name \in StopNames, now \in ClockTimes :
          AddCustodyEvent(truck_id, stop_name, now)

SpecFleet == InitCounts /\ [][NextFleet]_vars

TruckOps ==
    {"process_telemetry", "register_trip", "set_edge_mode",
     "sync_edge_buffer_entered", "sync_edge_buffer", "add_custody_event"}

(* The world with every truck but truck_id unknown to the engine. *)
Alone(W, truck_id) ==
    [W EXCEPT
       !.active_trips = [t \in Trucks |-> IF t = truck_id THEN @[t] ELSE NoTrip],
       !.truck_states = [t \in Trucks |-> IF t = truck_id THEN @[t]
                                          ELSE AbsentState]]

(* The rows of TripConfigDB a register_trip for truck_id stored. *)
OwnTrips(db, truck_id) == SelectSeq(db, LAMBDA row : row.truck_id = truck_id)

(* C21: process_telemetry, set_edge_mode, sync_edge_buffer,                *)
(* add_custody_event and register_trip for one truck, returning or         *)
(* raising, leave every other truck's trip, stop-tracking state,           *)
(* last_telemetry, offline flag and edge buffer unchanged, and never       *)
(* prevent a later operation for another truck from completing:            *)
(* process_telemetry for a truck ends as it does with no other truck       *)
(* known, register_trip for a truck raises only on a trip that truck       *)
(* stored, and a sync_edge_buffer call replays no more than the samples    *)
(* it found, so that it returns and the next call can run.                 *)
C21_TruckIndependence ==
    /\ [][ last'.op \in TruckOps
           => \A u \in Trucks \ {last'.truck} :
                /\ active_trips'[u] = active_trips[u]
                /\ truck_states'[u] = truck_states[u] ]_vars
    /\ [][ ( last'.op = "process_telemetry" /\ last'.via = "live" )
           => LET r == ProcessTelemetryCall(Alone(Now, last'.truck), last'.arg)
              IN  /\ last'.exc = r.exc
                  /\ last'.ret = r.ret
                  /\ truck_states'[last'.truck]
                       = r.world.truck_states[last'.truck] ]_vars
    /\ [][ ( last'.op = "register_trip" /\ last'.exc # "none" )
           => TripStored(OwnTrips(trip_db, last'.truck),
                         last'.arg.trip_id) ]_vars
    /\ [](sync # NoSync => sync.processed <= sync.n0)

----------------------------------------------------------------------------
(* Repository writes that fail, for one truck. *)
NextWrites ==
    \/ \E data \in EdgeSamples :
          TelemetryRows(telemetry_db) < MaxTel /\ ProcessTelemetry(data)
    \/ \E trip \in StopTrips : RegisterTrip(trip)
    \/ \E data \in EdgeSamples :
          TelemetryRows(telemetry_db) < MaxTel /\ TelemetryWriteFails(data)
    \/ \E data \in EdgeSamples :
          TelemetryRows(telemetry_db) < MaxTel /\ AlertWriteFails(data)

SpecWrites == InitCounts /\ [][NextWrites]_vars

WriteFailed ==
    {"telemetry_write_failed", "alert_write_failed"}

(* C22: when a repository write fails during process_telemetry (the write  *)
(* of the sample or of the new alerts) the call does not raise and leaves  *)
(* the truck's state as the same call leaves it when the write succeeds    *)
(* (stop-state transition applied, last_telemetry the sample); when the    *)
(* write of register_trip fails the trip is active and the truck's state   *)
(* at rest all the same.                                                   *)
C22_StateUpdatedWhenWriteFails ==
    [][ /\ ( last'.op = "process_telemetry" /\ last'.via \in WriteFailed )
           => /\ truck_states'[last'.truck]
                   = ProcessTelemetryCall(Now, last'.arg)
                       .world.truck_states[last'.truck]
              /\ truck_states'[last'.truck].last_telemetry = last'.arg
              /\ last'.exc = "none"
        /\ ( last'.op = "register_trip" /\ last'.exc # "none" )
           => /\ active_trips'[last'.truck] = last'.arg
              /\ truck_states'[last'.truck] = RestState ]_vars

----------------------------------------------------------------------------
(* The risk heuristic on the last telemetry of a truck. *)
NextRisk ==
    \/ \E data \in RiskSamples :
          TelemetryRows(telemetry_db) < MaxRiskTel /\ ProcessTelemetry(data)
    \/ \E trip \in EdgeTrips : RegisterTrip(trip)
    \/ \E truck_id \in Trucks : SetEdgeMode(truck_id, TRUE)
    \/ \E truck_id \in Trucks : PredictRisk(truck_id)

SpecRisk == InitCounts /\ [][NextRisk]_vars

WithinOf(lat, lng, p) ==
    Abs(lat - p.latitude) < 1500 /\ Abs(lng - p.longitude) < 1500

(* C23: predict_risk returns score 0.1 with no factors when the truck is   *)
(* unknown or has no last_telemetry; otherwise the score is 0.2, plus 0.4  *)
(* iff the hour of the last telemetry is in 2..4, plus 0.3 iff its         *)
(* location is within 0.15 degrees in latitude and in longitude of one of  *)
(* the two hotspots; in hundredths the score is one of 10, 20, 50, 60, 90  *)
(* and at most 95; predict_risk changes no state.                          *)
C23_RiskScore ==
    /\ [][ last'.op = "predict_risk"
           => UNCHANGED <<active_trips, truck_states, trip_db, alert_db,
                          telemetry_db, sync, custody_log>> ]_vars
    /\ [] ( last.op = "predict_risk"
            => LET tel == truck_states[last.truck].last_telemetry
                   score == last.ret.risk_score
               IN  /\ score \in {10, 20, 50, 60, 90}
                   /\ score <= 95
                   /\ IF ~truck_states[last.truck].present
                         \/ tel = NoTelemetry
                      THEN score = 10 /\ last.ret.factors = <<>>
                      ELSE score =
                             20 + (IF (tel.timestamp \div 60) % 24 \in 2..4
                                   THEN 40 ELSE 0)
                                + (IF \/ WithinOf(tel.latitude, tel.longitude,
                                                  [latitude |-> 223460,
                                                   longitude |-> 872320])
                                      \/ WithinOf(tel.latitude, tel.longitude,
                                                  [latitude |-> 224327,
                                                   longitude |-> 878672])
                                   THEN 30 ELSE 0) )

(* C23 witness: score 0.9 for a truck whose last telemetry, analysed by    *)
(* process_telemetry, is at hour 4 and within the box of the second        *)
(* hotspot only.                                                           *)
C23_Witness ==
    /\ last.op = "predict_risk"
    /\ last.ret.risk_score = 90
    /\ Len(last.ret.factors) = 2
    /\ truck_states[last.truck].last_telemetry.timestamp = 299
    /\ truck_states[last.truck].last_telemetry.latitude = 225000
    /\ truck_states[last.truck].last_telemetry.longitude = 878672
    /\ telemetry_db[last.truck] >= 2

----------------------------------------------------------------------------
(* Custody events of registered and unknown trucks. *)
NextCustody ==
    \/ \E data \in Samples :
          TelemetryRows(telemetry_db) < MaxLogTel /\ ProcessTelemetry(data)
    \/ \E trip \in Trips : RegisterTrip(trip)
    \/ \E truck_id \in Trucks, offline \in BOOLEAN : SetEdgeMode(truck_id, offline)
    \/ \E truck_id \in Trucks, stop_name \in StopNames, now \in ClockTimes :
          AddCustodyEvent(truck_id, stop_name, now)

SpecCustody == InitCounts /\ [][NextCustody]_vars

(* C24: add_custody_event for any truck_id appends exactly one record to   *)
(* the custody log and returns it; it adds exactly one alert, of severity  *)
(* LOW and for that truck, to the alert log if the truck has a             *)
(* last_telemetry and none otherwise, so no SOP escalation either; it      *)
(* changes no truck's stop-tracking state, offline flag or edge buffer.    *)
C24_CustodyEventEffects ==
    [][ last'.op = "add_custody_event"
        => /\ custody_log' = Append(custody_log, last'.ret)
           /\ last'.ret.truck_id = last'.truck
           /\ IF truck_states[last'.truck].last_telemetry # NoTelemetry
              THEN /\ Len(alert_db') = Len(alert_db) + 1
                   /\ SubSeq(alert_db', 1, Len(alert_db)) = alert_db
                   /\ alert_db'[Len(alert_db')].severity = "LOW"
                   /\ alert_db'[Len(alert_db')].truck_id = last'.truck
                   /\ alert_db'[Len(alert_db')].status = "OPEN"
              ELSE alert_db' = alert_db
           /\ truck_states' = truck_states
           /\ active_trips' = active_trips ]_vars

(* C24 witness: the event of a stopped, offline truck with a sample in its *)
(* buffer and a last_telemetry: one LOW alert was logged, and the state    *)
(* of the truck is as it was.                                              *)
C24_Witness ==
    /\ last.op = "add_custody_event"
    /\ custody_log = << last.ret >>
    /\ truck_states[last.truck].last_telemetry # NoTelemetry
    /\ truck_states[last.truck].is_stopped
    /\ truck_states[last.truck].edge_offline
    /\ Len(truck_states[last.truck].edge_buffer) = 1
    /\ alert_db[Len(alert_db)].agent_name = "CCTV Guard"
    /\ alert_db[Len(alert_db)].severity = "LOW"

----------------------------------------------------------------------------
(* Reading the alert log. *)
NextQuery ==
    \/ \E data \in Samples :
          TelemetryRows(telemetry_db) < MaxTel /\ ProcessTelemetry(data)
    \/ \E trip \in Trips : RegisterTrip(trip)
    \/ \E alert_id \in LogAlertIds : ResolveAlert(alert_id)
    \/ \E alert_id \in LogAlertIds : UnresolveAlert(alert_id)
    \/ \E arg \in GetAlertsArgs : GetAlerts(arg)

SpecQuery == InitCounts /\ [][NextQuery]_vars

(* C25: get_alerts(truck_id) returns exactly the alerts of the log whose   *)
(* truck_id equals the argument, in the order of the log, whatever their   *)
(* severity and status, and get_alerts() returns the whole log; get_alerts *)
(* changes no state.                                                       *)
C25_GetAlertsFiltersByTruck ==
    [][ last'.op = "get_alerts"
        => /\ last'.ret =
                IF last'.arg.given
                THEN SelectSeq(alert_db,
                               LAMBDA a : a.truck_id = last'.arg.truck_id)
                ELSE alert_db
           /\ UNCHANGED <<active_trips, truck_states, trip_db, alert_db,
                          telemetry_db, sync, custody_log>> ]_vars

----------------------------------------------------------------------------
IsStopAlert(a) == a.type = "SUSPICIOUS_STOP"

(* C26: the first stopped sample (speed < 5) the detector analyses after a *)
(* moving sample or after registration sets is_stopped and sets            *)
(* stop_start_time to the sample's timestamp, and gets no SUSPICIOUS_STOP  *)
(* alert; a later stopped sample of the episode leaves stop_start_time as  *)
(* it is, the timestamp of the episode's first stopped sample.             *)
C26_StopStartsAtFirstStoppedSample ==
    [][ ( /\ last'.op = "process_telemetry"
          /\ last'.analysed
          /\ last'.arg.speed_kmh < 5 )
        => /\ truck_states'[last'.truck].is_stopped
           /\ IF ~truck_states[last'.truck].is_stopped
              THEN /\ truck_states'[last'.truck].stop_start_time
                        = last'.arg.timestamp
                   /\ CountAlerts(last'.raw, IsStopAlert) = 0
              ELSE /\ truck_states'[last'.truck].stop_start_time
                        = truck_states[last'.truck].stop_start_time
                   /\ truck_states'[last'.truck].stop_start_time
                        = episode[last'.truck].start ]_vars

(* C26 witness: a stop that began at minute 5, after an earlier episode    *)
(* ended with an overstay, gets a further stopped sample, stamped minute   *)
(* 0: its start is still minute 5.                                         *)
C26_Witness ==
    /\ Analysed
    /\ last.arg.speed_kmh < StopSpeedKmh
    /\ last.arg.timestamp = 0
    /\ truck_states[last.truck].is_stopped
    /\ truck_states[last.truck].stop_start_time = 5
    /\ episode[last.truck].start = 5
    /\ episode[last.truck].rearmed

----------------------------------------------------------------------------
(* The places in the list of the geofences that contain the location. *)
GeofencesAround(location, stops) ==
    { i \in 1..Len(stops) :
        CalculateDistance(location, stops[i].location) <= stops[i].radius_meters }

(* C27: for a continuing-stop sample inside one or several authorized      *)
(* geofences (a distance equal to the radius is inside) the overstay       *)
(* threshold is the max_duration_minutes of the first of them in the       *)
(* trip's list order: the sample gets the MEDIUM overstay alert iff the    *)
(* stop has lasted longer than that and the episode has none yet; it gets  *)
(* no HIGH unauthorized-stop alert.                                        *)
C27_FirstGeofenceInListOrderWins ==
    [][ ( /\ last'.op = "process_telemetry"
          /\ last'.analysed
          /\ last'.arg.speed_kmh < 5
          /\ truck_states[last'.truck].is_stopped
          /\ GeofencesAround(last'.arg.location,
                             active_trips[last'.truck].authorized_stops) # {} )
        => LET stops == active_trips[last'.truck].authorized_stops
               around == GeofencesAround(last'.arg.location, stops)
               first == CHOOSE i \in around : \A j \in around : i <= j
               duration == last'.arg.timestamp
                             - truck_states[last'.truck].stop_start_time
           IN  /\ CountAlerts(last'.raw, IsUnauthorizedAlert) = 0
               /\ CountAlerts(last'.raw, IsOverstayAlert)
                    = IF /\ duration > stops[first].max_duration_minutes
                         /\ ~truck_states[last'.truck].alerted_overstay
                      THEN 1 ELSE 0 ]_vars

(* C27 witness: a sample 6 minutes into a stop, at the centre of the rest  *)
(* point (limit 5) and exactly on the border of the depot (limit 10),      *)
(* under a trip that lists the depot first: no overstay alert.             *)
C27_Witness ==
    /\ Analysed
    /\ last.arg.speed_kmh < StopSpeedKmh
    /\ last.arg.location = RestPoint.location
    /\ CalculateDistance(last.arg.location, Depot.location) = Depot.radius_meters
    /\ active_trips[last.truck].authorized_stops = << Depot, RestPoint >>
    /\ truck_states[last.truck].is_stopped
    /\ last.arg.timestamp - truck_states[last.truck].stop_start_time = 6
    /\ ~truck_states[last.truck].alerted_overstay
    /\ episode[last.truck].inside
    /\ last.raw = <<>>

----------------------------------------------------------------------------
(* C28: set_edge_mode(truck, offline) sets that truck's offline flag and   *)
(* changes nothing else: is_stopped, stop_start_time, alerted_overstay and *)
(* last_telemetry of the truck, the states of the other trucks, the trips  *)
(* and the alert log are as before, and the samples in the truck's buffer  *)
(* stay, in their order, also when offline is turned on again.             *)
C28_SetEdgeModeChangesOnlyFlag ==
    [][ last'.op = "set_edge_mode"
        => /\ truck_states'[last'.truck].edge_offline = last'.arg
           /\ TrackingOf(truck_states'[last'.truck])
                = TrackingOf(truck_states[last'.truck])
           /\ truck_states'[last'.truck].edge_buffer
                = truck_states[last'.truck].edge_buffer
           /\ \A u \in Trucks \ {last'.truck} :
                truck_states'[u] = truck_states[u]
           /\ UNCHANGED <<alert_db, active_trips, trip_db, telemetry_db,
                          custody_log>> ]_vars

(* C28 witness: offline turned on for a stopped truck whose buffer holds   *)
(* two samples, in the order they came in.                                 *)
C28_Witness ==
    /\ last.op = "set_edge_mode"
    /\ last.arg = TRUE
    /\ truck_states[last.truck].edge_offline
    /\ truck_states[last.truck].is_stopped
    /\ truck_states[last.truck].last_telemetry # NoTelemetry
    /\ Len(truck_states[last.truck].edge_buffer) = 2
    /\ truck_states[last.truck].edge_buffer[1].timestamp = 6
    /\ truck_states[last.truck].edge_buffer[2].timestamp = 0

----------------------------------------------------------------------------
StopTracking(st) ==
    [is_stopped |-> st.is_stopped, stop_start_time |-> st.stop_start_time,
     alerted_overstay |-> st.alerted_overstay]

(* C29: whenever the detector returns a raw alert (WEIGHT_MISMATCH or      *)
(* SUSPICIOUS_STOP) for a sample process_telemetry handles, that alert is  *)
(* in the alert log when the call ends; and the call never leaves the      *)
(* detector's change of the stop-tracking state applied without the        *)
(* sample's alerts logged and last_telemetry set to the sample.            *)
C29_NoDetectionLost ==
    [][ ( last'.op = "process_telemetry" /\ last'.analysed )
        => /\ \A i \in 1..Len(last'.raw) :
                \E j \in 1..Len(alert_db') : alert_db'[j] = last'.raw[i]
           /\ StopTracking(truck_states'[last'.truck])
                # StopTracking(truck_states[last'.truck])
              => truck_states'[last'.truck].last_telemetry = last'.arg ]_vars

----------------------------------------------------------------------------
IsPrefix(s, t) == Len(s) <= Len(t) /\ SubSeq(t, 1, Len(s)) = s

(* C30: no call of set_edge_mode, process_telemetry, sync_edge_buffer or   *)
(* register_trip loses a buffered sample: after every step the samples     *)
(* that were in a truck's edge_buffer are still in it, in their places,    *)
(* unless the step is the end of a sync_edge_buffer call for that truck    *)
(* whose replay had the detector analyse every one of them.                *)
C30_NoBufferedSampleLost ==
    [][ \A t \in Trucks :
          \/ IsPrefix(truck_states[t].edge_buffer, truck_states'[t].edge_buffer)
          \/ /\ last'.op = "sync_edge_buffer"
             /\ last'.truck = t
             /\ last'.analysed >= Len(truck_states[t].edge_buffer) ]_vars

----------------------------------------------------------------------------
(* C31: every sample process_telemetry accepts for a registered truck is   *)
(* written to the telemetry store exactly once: the call that receives it, *)
(* analysed or buffered, adds one row for the truck, and the replay of a   *)
(* buffered sample by sync_edge_buffer adds none, its row being there.     *)
C31_SampleStoredOnce ==
    [][ ( last'.op = "process_telemetry" /\ Registered(last'.truck) )
        => telemetry_db' =
             [telemetry_db EXCEPT
                ![last'.truck] = @ + IF last'.via = "sync" THEN 0 ELSE 1] ]_vars

----------------------------------------------------------------------------
(* C32: in every reachable state, every truck with a registered trip has   *)
(* is_stopped true exactly when stop_start_time is set, so the duration a  *)
(* continuing-stop sample computes (line 66) is never taken from a missing *)
(* start time.                                                             *)
C32_StoppedIffStartTimeSet ==
    \A t \in Trucks :
        Registered(t)
        => /\ truck_states[t].present
           /\ truck_states[t].is_stopped
                <=> truck_states[t].stop_start_time # NoTime

(* C32 witness: a continuing-stop sample was analysed for a truck that had *)
(* moved on from an earlier stop: its duration was computed from the start *)
(* time of the present stop, which is set and earlier than the sample.     *)
C32_Witness ==
    /\ Analysed
    /\ last.arg.speed_kmh < StopSpeedKmh
    /\ episode[last.truck].rearmed
    /\ truck_states[last.truck].is_stopped
    /\ truck_states[last.truck].stop_start_time # NoTime
    /\ truck_states[last.truck].stop_start_time < last.arg.timestamp

----------------------------------------------------------------------------
(* Start-up on a database that holds trips: restarts of the engine. *)

RestartTrips == { TripConfig(id, t, stops) :
                    id \in TripIds, t \in Trucks,
                    stops \in {<<>>, <<RestPoint, Depot>>} }

(* Registrations, telemetry and the offline mode, with restarts. *)
NextRestart ==
    \/ \E data \in Samples :
          TelemetryRows(telemetry_db) < MaxRestartTel /\ ProcessTelemetry(data)
    \/ \E trip \in RestartTrips : RegisterTrip(trip)
    \/ \E truck_id \in Trucks : SetEdgeMode(truck_id, TRUE)
    \/ Restart

SpecRestart == Init /\ [][NextRestart]_vars

(* C33: after register_trip calls and a restart, the trip in memory of     *)
(* each truck is the trip most recently registered for it: the trip of the *)
(* register_trip call for that truck that came last before the restart     *)
(* (here the call just before the restart) and otherwise the trip that was *)
(* in memory; every truck with a trip has its tracking state at rest, not  *)
(* offline, with an empty buffer, and its last_telemetry is the stored     *)
(* sample with the latest timestamp, or none when no sample is stored.     *)
C33_RestartConsistency ==
    [][ last'.op = "restart"
        => /\ last.op = "register_trip"
                => active_trips'[last.truck] = last.arg
           /\ \A t \in Trucks :
                /\ ~( last.op = "register_trip" /\ last.truck = t )
                     => active_trips'[t] = active_trips[t]
                /\ active_trips'[t] = NoTrip
                     => truck_states'[t] = AbsentState
                /\ active_trips'[t] # NoTrip
                     => /\ truck_states'[t].present
                        /\ StopTracking(truck_states'[t])
                             = StopTracking(RestState)
                        /\ ~truck_states'[t].edge_offline
                        /\ truck_states'[t].edge_buffer = <<>>
                        /\ IF telemetry_rows[t] = <<>>
                           THEN truck_states'[t].last_telemetry = NoTelemetry
                           ELSE LET tel == truck_states'[t].last_telemetry
                                    rows == telemetry_rows[t]
                                IN  /\ tel # NoTelemetry
                                    /\ \E i \in 1..Len(rows) :
                                          rows[i] = TelemetryToDb(tel)
                                    /\ \A i \in 1..Len(rows) :
                                          rows[i].timestamp <= tel.timestamp
      ]_vars

====
